---- MODULE Spec2Model ----
(***************************************************************************)
(* ezmail: EzSender (SMTP composition and per-recipient delivery) and      *)
(* EzReader (IMAP session, search and message decomposition), modelled     *)
(* from src/ezmail/core.py.                                                *)
(*                                                                         *)
(* Text is a sequence of tokens: "<", ">" and the white-space tokens stand *)
(* for themselves, every other token for a non-empty run of characters     *)
(* holding none of those.  None is the empty tuple <<>> for optional       *)
(* integers (<<n>> is the integer n) and NoneVal for optional strings; ""  *)
(* is the empty string.                                                    *)
(***************************************************************************)
EXTENDS Integers, Sequences, FiniteSets, TLC

VARIABLES
    \* ---- EzSender fields (core.py 55-65)
    smtp_port, max_emails_per_hour, body, attachments,
    \* ---- the file system read by _build_body and send
    files,
    \* ---- one call of EzSender.send: position, locals, outcome
    pc, conn, recipients, idx, result, emails_sent, unified_body, inline_images, message,
    raised,
    \* ---- what the run did to the outside, in order; message is the message
    \* ---- last handed to smtp.sendmail
    log,
    \* ---- EzReader fields (core.py 389-396) and the IMAP connections it opened
    auth_type, mail, imap,
    \* ---- the outcome of the last EzReader operation
    ret,
    \* ---- the arguments and the server's answers of the call under study
    args

senderVars == <<smtp_port, max_emails_per_hour, body, attachments, files, pc, conn,
                recipients, idx, result, emails_sent, unified_body, inline_images,
                raised, log, message>>

readerVars == <<auth_type, mail, imap, ret, args>>

vars == <<senderVars, readerVars>>

----------------------------------------------------------------------------
(* Bounds *)
MaxRecipients == 3
MaxRate == 2

(* Program constants *)
StartTlsPort == 587
SslPort == 465
PauseSeconds == 3600

NoneVal == "None"
Placeholder == "Content not available."

Addr == {"a@x", "b@x"}
Ports == {StartTlsPort, SslPort, 25}
Rates == {<<>>} \cup {<<n>> : n \in 1..MaxRate}

ImagePath == "logo.png"
DocPath == "doc.txt"
Paths == {ImagePath, DocPath}
FileStates == {"missing", "unreadable", "v1", "v2"}

RECURSIVE SeqsUpTo(_, _)
SeqsUpTo(S, n) ==
    IF n = 0 THEN {<<>>}
    ELSE LET shorter == SeqsUpTo(S, n - 1)
         IN  shorter \cup {Append(s, x) : s \in {t \in shorter : Len(t) = n - 1}, x \in S}

(* Python truthiness of an optional integer / optional string *)
TruthyInt(v) == v # <<>> /\ v[1] # 0
TruthyStr(v) == v # NoneVal /\ v # ""

----------------------------------------------------------------------------
(* The file system, as os.path.isfile, open and mimetypes.guess_type see it *)
isfile(fs, path) == fs[path] # "missing"
CanOpen(fs, path) == fs[path] \in {"v1", "v2"}
guess_type(path) ==
    IF path = ImagePath THEN "image/png"
    ELSE IF path = DocPath THEN "text/plain"
    ELSE NoneVal
MainType(mime) ==
    IF mime = "image/png" THEN "image"
    ELSE IF mime = "text/plain" THEN "text"
    ELSE "application"

----------------------------------------------------------------------------
(* Content blocks of self.body *)
TextBlock(html) ==
    [kind |-> "text", html |-> html, image |-> NoneVal, width |-> NoneVal,
     height |-> NoneVal, cid |-> NoneVal]
ImageBlock(path, width, height, cid) ==
    [kind |-> "image", html |-> <<>>, image |-> path, width |-> width,
     height |-> height, cid |-> cid]

HelloHtml == <<"<", "p", ">", "Hello", " ", "there", "<", "/p", ">">>

(* The composed messages send is called on: what add_text, add_image and *)
(* add_attachment (67-142) left in self.body and self.attachments        *)
SampleMessages ==
    { [body |-> <<>>, attachments |-> <<>>],
      [body |-> <<TextBlock(HelloHtml)>>, attachments |-> <<DocPath>>],
      [body |-> <<TextBlock(HelloHtml), ImageBlock(ImagePath, "200px", NoneVal, NoneVal)>>,
       attachments |-> <<>>],
      [body |-> <<ImageBlock(ImagePath, NoneVal, NoneVal, "logo")>>, attachments |-> <<>>] }

(* uuid4().hex[:8]: a token distinct for every block *)
AutoCid(i) == "img" \o ToString(i)

(* the style without the width *)
ImageStyleHeightOnly(width, height) ==
    IF TruthyStr(width) \/ TruthyStr(height)
    THEN <<" ", "style=\"">>
             \o (IF TruthyStr(height) THEN <<"height:", height, ";">> ELSE <<>>)
             \o <<"\"">>
    ELSE <<>>

(* 209-216 *)
ImageStyle(width, height) ==
    IF TruthyStr(width) \/ TruthyStr(height)
    THEN <<" ", "style=\"">>
             \o (IF TruthyStr(width) THEN <<"width:", width, ";">> ELSE <<>>)
             \o (IF TruthyStr(height) THEN <<"height:", height, ";">> ELSE <<>>)
             \o <<"\"">>
    ELSE <<>>

ImgTag(cid, style) ==
    <<"<", "br", ">", "<", "img", " ", "src=\"cid:" \o cid \o "\"">> \o style
        \o <<">", "<", "br", ">">>

(* EzSender._build_body over the first n blocks: ok is FALSE when open()     *)
(* raised on a block; html and images are what was accumulated.              *)
RECURSIVE BuildBodyUpTo(_, _, _)
BuildBodyUpTo(bd, fs, n) ==
    IF n = 0 THEN [ok |-> TRUE, html |-> <<>>, images |-> <<>>]
    ELSE
      LET prev  == BuildBodyUpTo(bd, fs, n - 1)
          block == bd[n]
      IN
      IF ~prev.ok THEN prev
      ELSE IF block.kind = "text" THEN [prev EXCEPT !.html = @ \o block.html]
      ELSE IF ~isfile(fs, block.image) THEN prev
      ELSE
        LET cid   == IF TruthyStr(block.cid) THEN block.cid ELSE AutoCid(n)
            style == ImageStyle(block.width, block.height)
            html  == IF ~TruthyStr(block.cid) THEN prev.html \o ImgTag(cid, style)
                     ELSE prev.html
            mime  == guess_type(block.image)
        IN
        IF ~CanOpen(fs, block.image) THEN [ok |-> FALSE, html |-> html, images |-> prev.images]
        ELSE IF mime # NoneVal /\ MainType(mime) = "image"
        THEN [ok |-> TRUE, html |-> html,
              images |-> Append(prev.images,
                                [cid |-> cid, filename |-> block.image,
                                 data |-> fs[block.image]])]
        ELSE [ok |-> TRUE, html |-> html, images |-> prev.images]

_build_body(bd, fs) == BuildBodyUpTo(bd, fs, Len(bd))

----------------------------------------------------------------------------
(* Plain-text alternative: sub(r"<[^>]+>", "", s), sub(r"\s+", " ", .),      *)
(* strip(), or the placeholder                                               *)
IsSpace(t) == t \in {" ", "\n", "\t"}

FirstClose(s, i) ==
    LET js == {j \in (i + 1)..Len(s) : s[j] = ">"}
    IN  IF js = {} THEN 0 ELSE CHOOSE j \in js : \A k \in js : j <= k

RECURSIVE StripTagsFrom(_, _)
StripTagsFrom(s, i) ==
    IF i > Len(s) THEN <<>>
    ELSE IF s[i] = "<" /\ FirstClose(s, i) >= i + 2
         THEN StripTagsFrom(s, FirstClose(s, i) + 1)
         ELSE <<s[i]>> \o StripTagsFrom(s, i + 1)

RECURSIVE CollapseSpaceFrom(_, _)
CollapseSpaceFrom(s, i) ==
    IF i > Len(s) THEN <<>>
    ELSE IF IsSpace(s[i])
         THEN IF i > 1 /\ IsSpace(s[i - 1]) THEN CollapseSpaceFrom(s, i + 1)
              ELSE <<" ">> \o CollapseSpaceFrom(s, i + 1)
         ELSE <<s[i]>> \o CollapseSpaceFrom(s, i + 1)

Strip(s) ==
    LET keep == {i \in 1..Len(s) : ~IsSpace(s[i])}
    IN  IF keep = {} THEN <<>>
        ELSE LET lo == CHOOSE i \in keep : \A k \in keep : i <= k
                 hi == CHOOSE i \in keep : \A k \in keep : i >= k
             IN  SubSeq(s, lo, hi)

(* the plain text without the white-space normalisation of 277 *)
PlainTextUncollapsed(html) ==
    LET t == Strip(StripTagsFrom(html, 1))
    IN  IF t = <<>> THEN <<Placeholder>> ELSE t

(* 275-279 *)
PlainText(html) ==
    LET t == Strip(CollapseSpaceFrom(StripTagsFrom(html, 1), 1))
    IN  IF t = <<>> THEN <<Placeholder>> ELSE t

----------------------------------------------------------------------------
(* the attachments as first written, whatever the files are now *)
AttachUpToCached(att, fs, n) ==
    [ok |-> TRUE,
     parts |-> [k \in 1..Len(att) |->
                   [filename |-> att[k], main_type |-> MainType(guess_type(att[k])),
                    data |-> "v1"]]]

(* The per-recipient message of send (268-305): ok is FALSE when open()      *)
(* raised on an attachment                                                   *)
RECURSIVE AttachUpTo(_, _, _)
AttachUpTo(att, fs, n) ==
    IF n = 0 THEN [ok |-> TRUE, parts |-> <<>>]
    ELSE
      LET prev == AttachUpTo(att, fs, n - 1)
          path == att[n]
          mime == guess_type(path)
      IN
      IF ~prev.ok THEN prev
      ELSE IF ~isfile(fs, path) THEN prev
      ELSE IF ~CanOpen(fs, path) THEN [ok |-> FALSE, parts |-> prev.parts]
      ELSE [ok |-> TRUE,
            parts |-> Append(prev.parts,
                             [filename |-> path,
                              main_type |-> IF mime # NoneVal THEN MainType(mime)
                                            ELSE "application",
                              data |-> fs[path]])]

BuildMessage(recipient, html, images, att, fs) ==
    LET a == AttachUpTo(att, fs, Len(att))
    IN  [ok |-> a.ok,
         msg |-> [to |-> recipient, plain |-> PlainText(html), html |-> html,
                  images |-> images, attachments |-> a.parts]]

----------------------------------------------------------------------------
(* EzSender._connect (163-182) *)
ConnClass(port) == IF port = StartTlsPort THEN "SMTP" ELSE "SMTP_SSL"
NeedsStartTls(port) == port # SslPort

NoConn == [kind |-> "none", state |-> "none", starttls |-> FALSE, auth |-> FALSE]
NoMessage == <<>>
EmptyResult == [sent |-> <<>>, failed |-> <<>>]

(* recipients = [recipients] unless it is a list or a tuple (256-257) *)
SendInputs ==
    {<<"str", a>> : a \in Addr} \cup {<<"list", R>> : R \in SeqsUpTo(Addr, MaxRecipients)}
Normalize(input) == IF input[1] = "list" THEN input[2] ELSE <<input[2]>>

(* the failure is swallowed and not recorded *)
SetFailedDropped(failed, recipient, err) == failed

(* result["failed"][recipient] = str(e) *)
SetFailed(failed, recipient, err) ==
    [a \in DOMAIN failed \cup {recipient} |-> IF a = recipient THEN err ELSE failed[a]]

(* the pause is taken on every transmission from the maximum on *)
ReachedRateOrMore(rate, sent_count) == TruthyInt(rate) /\ sent_count >= rate[1]

(* 313: self.max_emails_per_hour and emails_sent == self.max_emails_per_hour *)
ReachedRate(rate, sent_count) == TruthyInt(rate) /\ sent_count = rate[1]

----------------------------------------------------------------------------
InitSender ==
    /\ smtp_port \in Ports
    /\ max_emails_per_hour \in Rates
    /\ \E m \in SampleMessages : body = m.body /\ attachments = m.attachments
    /\ files = [p \in Paths |-> "v1"]
    /\ pc = "idle"
    /\ conn = NoConn
    /\ recipients = <<>>
    /\ idx = 0
    /\ result = EmptyResult
    /\ emails_sent = 0
    /\ unified_body = <<>>
    /\ inline_images = <<>>
    /\ raised = NoneVal
    /\ log = <<>>
    /\ message = NoMessage

(* The files the composed message names *)
ReferencedPaths ==
    {body[i].image : i \in {j \in 1..Len(body) : body[j].kind = "image"}}
        \cup {attachments[i] : i \in 1..Len(attachments)}

(* The environment rewrites, removes or locks a file the message names, *)
(* before send is called or between two recipients                      *)
FileChange(p, s) ==
    /\ pc \in {"idle", "loop"}
    /\ p \in ReferencedPaths
    /\ files[p] # s
    /\ files' = [files EXCEPT ![p] = s]
    /\ UNCHANGED <<smtp_port, max_emails_per_hour, body, attachments, pc, conn,
                   recipients, idx, result, emails_sent, unified_body, inline_images,
                   raised, log, message>>
    /\ UNCHANGED readerVars

(* send, 256-259: normalise the recipients, start with an empty result *)
send_begin(input) ==
    /\ pc = "idle"
    /\ recipients' = Normalize(input)
    /\ result' = EmptyResult
    /\ pc' = "connect"
    /\ UNCHANGED <<smtp_port, max_emails_per_hour, body, attachments, files, conn, idx,
                   emails_sent, unified_body, inline_images, raised, log, message>>
    /\ UNCHANGED readerVars

(* _connect, 175-176: open the transport; a failure is wrapped at 319-320 *)
connect_open(ok) ==
    /\ pc = "connect"
    /\ IF ok
       THEN /\ conn' = [kind |-> ConnClass(smtp_port), state |-> "open",
                        starttls |-> FALSE, auth |-> FALSE]
            /\ pc' = IF NeedsStartTls(smtp_port) THEN "starttls" ELSE "login"
            /\ raised' = raised
       ELSE /\ conn' = conn
            /\ pc' = "raised"
            /\ raised' = "connect"
    /\ UNCHANGED <<smtp_port, max_emails_per_hour, body, attachments, files, recipients,
                   idx, result, emails_sent, unified_body, inline_images, log, message>>
    /\ UNCHANGED readerVars

(* _connect, 178-179 *)
connect_starttls(ok) ==
    /\ pc = "starttls"
    /\ IF ok
       THEN /\ conn' = [conn EXCEPT !.starttls = TRUE]
            /\ pc' = "login"
            /\ raised' = raised
       ELSE /\ conn' = conn
            /\ pc' = "raised"
            /\ raised' = "starttls"
    /\ UNCHANGED <<smtp_port, max_emails_per_hour, body, attachments, files, recipients,
                   idx, result, emails_sent, unified_body, inline_images, log, message>>
    /\ UNCHANGED readerVars

(* _connect, 181-182 *)
connect_login(ok) ==
    /\ pc = "login"
    /\ IF ok
       THEN /\ conn' = [conn EXCEPT !.auth = TRUE]
            /\ pc' = "build_body"
            /\ raised' = raised
       ELSE /\ conn' = conn
            /\ pc' = "raised"
            /\ raised' = "login"
    /\ UNCHANGED <<smtp_port, max_emails_per_hour, body, attachments, files, recipients,
                   idx, result, emails_sent, unified_body, inline_images, log, message>>
    /\ UNCHANGED readerVars

(* What leaving the with block does to the connection: QUIT, then close *)
Closed(c) == [c EXCEPT !.state = "closed"]

(* send, 263-264: the shared body, inside the with block and the outer try: *)
(* an exception leaves the with block (the connection is closed) and is     *)
(* wrapped at 319-320                                                       *)
send_build_body(quit_ok) ==
    /\ pc = "build_body"
    /\ LET b == _build_body(body, files)
       IN  IF b.ok
           THEN /\ quit_ok
                /\ unified_body' = b.html
                /\ inline_images' = b.images
                /\ emails_sent' = 0
                /\ idx' = 1
                /\ pc' = "loop"
                /\ UNCHANGED <<conn, raised>>
           ELSE /\ conn' = Closed(conn)
                /\ pc' = "raised"
                /\ raised' = IF quit_ok THEN "build_body" ELSE "quit"
                /\ UNCHANGED <<unified_body, inline_images, emails_sent, idx>>
    /\ UNCHANGED <<smtp_port, max_emails_per_hour, body, attachments, files, recipients,
                   result, log, message>>
    /\ UNCHANGED readerVars

(* send_recipient without the try/except of 267 and 316: a failure of one *)
(* recipient leaves the with block and is wrapped at 319-320              *)
send_recipient_unguarded(send_ok) ==
    /\ pc = "loop"
    /\ idx <= Len(recipients)
    /\ LET recipient == recipients[idx]
           m == BuildMessage(recipient, unified_body, inline_images, attachments, files)
       IN  IF ~m.ok \/ ~send_ok
           THEN /\ pc' = "raised"
                /\ raised' = "recipient"
                /\ conn' = Closed(conn)
                /\ message' = IF m.ok THEN m.msg ELSE message
                /\ UNCHANGED <<result, emails_sent, log>>
           ELSE /\ result' = [result EXCEPT !.sent = Append(@, recipient)]
                /\ emails_sent' = emails_sent + 1
                /\ message' = m.msg
                /\ log' = IF ReachedRate(max_emails_per_hour, emails_sent + 1)
                          THEN log \o <<<<"sendmail", recipient>>,
                                        <<"sleep", PauseSeconds>>>>
                          ELSE Append(log, <<"sendmail", recipient>>)
                /\ UNCHANGED <<pc, raised, conn>>
    /\ idx' = idx + 1
    /\ UNCHANGED <<smtp_port, max_emails_per_hour, body, attachments, files,
                   recipients, unified_body, inline_images>>
    /\ UNCHANGED readerVars

(* send, 266-317: one iteration of the recipient loop *)
send_recipient(send_ok) ==
    /\ pc = "loop"
    /\ idx <= Len(recipients)
    /\ LET recipient == recipients[idx]
           m == BuildMessage(recipient, unified_body, inline_images, attachments, files)
       IN  IF ~m.ok
           THEN /\ send_ok
                /\ result' = [result EXCEPT !.failed = SetFailed(@, recipient, "open failed")]
                /\ log' = Append(log, <<"build_error", recipient>>)
                /\ emails_sent' = emails_sent
                /\ message' = message
           ELSE IF ~send_ok
           THEN /\ result' = [result EXCEPT !.failed = SetFailed(@, recipient, "sendmail failed")]
                /\ log' = Append(log, <<"sendmail_error", recipient>>)
                /\ emails_sent' = emails_sent
                /\ message' = m.msg
           ELSE /\ result' = [result EXCEPT !.sent = Append(@, recipient)]
                /\ emails_sent' = emails_sent + 1
                /\ message' = m.msg
                /\ log' = IF ReachedRate(max_emails_per_hour, emails_sent + 1)
                          THEN log \o <<<<"sendmail", recipient>>,
                                        <<"sleep", PauseSeconds>>>>
                          ELSE Append(log, <<"sendmail", recipient>>)
    /\ idx' = idx + 1
    /\ UNCHANGED <<smtp_port, max_emails_per_hour, body, attachments, files, pc, conn,
                   recipients, unified_body, inline_images, raised>>
    /\ UNCHANGED readerVars

(* send, 262 and 319-322: the loop is over, the with block is left (QUIT and *)
(* close), and the result is returned unless leaving raised                  *)
send_exit(quit_ok) ==
    /\ pc = "loop"
    /\ idx > Len(recipients)
    /\ conn' = Closed(conn)
    /\ IF quit_ok
       THEN pc' = "returned" /\ raised' = raised
       ELSE pc' = "raised" /\ raised' = "quit"
    /\ UNCHANGED <<smtp_port, max_emails_per_hour, body, attachments, files, recipients,
                   idx, result, emails_sent, unified_body, inline_images, log, message>>
    /\ UNCHANGED readerVars

SenderNext ==
    \/ \E p \in Paths, s \in FileStates : FileChange(p, s)
    \/ \E input \in SendInputs : send_begin(input)
    \/ \E ok \in BOOLEAN : connect_open(ok)
    \/ \E ok \in BOOLEAN : connect_starttls(ok)
    \/ \E ok \in BOOLEAN : connect_login(ok)
    \/ \E quit_ok \in BOOLEAN : send_build_body(quit_ok)
    \/ \E send_ok \in BOOLEAN : send_recipient(send_ok)
    \/ \E quit_ok \in BOOLEAN : send_exit(quit_ok)

----------------------------------------------------------------------------
(* EzReader *)

(* Bounds *)
MaxConns == 2
MaxIds == 2
MaxParts == 2

AuthTypes == {"password", "oauth2", "kerberos"}

(* The IMAP4 connection states in which imaplib sends a command; in any   *)
(* other state the call raises                                            *)
Legal(cmd, state) ==
    IF cmd \in {"login", "authenticate"} THEN state = "NONAUTH"
    ELSE IF cmd \in {"list", "select"} THEN state \in {"AUTH", "SELECTED"}
    ELSE IF cmd \in {"search", "fetch", "close"} THEN state = "SELECTED"
    ELSE TRUE

NotConnected == "Not connected to any IMAP server."
InitRet == [op |-> "init", raised |-> NoneVal, value |-> <<>>, calls |-> <<>>]
Returned(op, value, calls) == [op |-> op, raised |-> NoneVal, value |-> value, calls |-> calls]
Raised(op, err, calls) == [op |-> op, raised |-> err, value |-> <<>>, calls |-> calls]

(* not self.mail (444, 507): None is 0, a connection object is its index in imap *)
NoMail(m) == m = 0

(* python: seq[:n] *)
Slice(seq, n) ==
    IF n >= 0 THEN SubSeq(seq, 1, IF n < Len(seq) THEN n ELSE Len(seq))
    ELSE SubSeq(seq, 1, IF Len(seq) + n > 0 THEN Len(seq) + n ELSE 0)

(* 536-537: if limit: ids = ids[:limit] *)
Truncate(ids, limit) == IF TruthyInt(limit) THEN Slice(ids, limit[1]) ELSE ids

----------------------------------------------------------------------------
(* The search expression, 510-526, as the pieces the code concatenates *)
Filters == <<"sender", "subject", "text", "body", "date", "since", "before">>

(* the two last date clauses in the other order *)
CriteriaBeforeFirst(q) ==
    <<"(", q.status>>
      \o (IF TruthyStr(q.sender)  THEN <<" FROM \"", q.sender, "\"">> ELSE <<>>)
      \o (IF TruthyStr(q.subject) THEN <<" SUBJECT \"", q.subject, "\"">> ELSE <<>>)
      \o (IF TruthyStr(q.text)    THEN <<" TEXT \"", q.text, "\"">> ELSE <<>>)
      \o (IF TruthyStr(q.body)    THEN <<" BODY \"", q.body, "\"">> ELSE <<>>)
      \o (IF TruthyStr(q.date)    THEN <<" ON ", q.date>> ELSE <<>>)
      \o (IF TruthyStr(q.before)  THEN <<" BEFORE ", q.before>> ELSE <<>>)
      \o (IF TruthyStr(q.since)   THEN <<" SINCE ", q.since>> ELSE <<>>)
      \o <<")">>

Criteria(q) ==
    <<"(", q.status>>
      \o (IF TruthyStr(q.sender)  THEN <<" FROM \"", q.sender, "\"">> ELSE <<>>)
      \o (IF TruthyStr(q.subject) THEN <<" SUBJECT \"", q.subject, "\"">> ELSE <<>>)
      \o (IF TruthyStr(q.text)    THEN <<" TEXT \"", q.text, "\"">> ELSE <<>>)
      \o (IF TruthyStr(q.body)    THEN <<" BODY \"", q.body, "\"">> ELSE <<>>)
      \o (IF TruthyStr(q.date)    THEN <<" ON ", q.date>> ELSE <<>>)
      \o (IF TruthyStr(q.since)   THEN <<" SINCE ", q.since>> ELSE <<>>)
      \o (IF TruthyStr(q.before)  THEN <<" BEFORE ", q.before>> ELSE <<>>)
      \o <<")">>

RECURSIVE Join(_)
Join(pieces) == IF pieces = <<>> THEN "" ELSE Head(pieces) \o Join(Tail(pieces))

----------------------------------------------------------------------------
(* A raw message as msg.walk() presents it: the parts in document order,   *)
(* containers included; payload_ok is FALSE when get_payload(decode=True)  *)
(* gives nothing to decode                                                 *)
Part(ctype, disp, filename, payload_ok, payload, multipart) ==
    [ctype |-> ctype, disposition |-> disp, filename |-> filename,
     payload_ok |-> payload_ok, payload |-> payload, multipart |-> multipart]

(* "attachment" not in content_disposition, after str(...).lower() (560, 567) *)
IsAttachmentDisposition(disp) == disp \in {"attachment", "Attachment"}

IsBodyPart(part) == part.ctype = "text/plain" /\ ~IsAttachmentDisposition(part.disposition)

(* 559-584: the walk over the first n parts *)
RECURSIVE WalkUpTo(_, _)
WalkUpTo(parts, n) ==
    IF n = 0 THEN [body |-> <<>>, attachments |-> <<>>]
    ELSE
      LET prev == WalkUpTo(parts, n - 1)
          part == parts[n]
      IN
      IF part.multipart THEN prev
      ELSE IF IsBodyPart(part) /\ ~part.payload_ok THEN prev
      ELSE
        LET b == IF IsBodyPart(part) THEN part.payload ELSE prev.body
        IN  IF TruthyStr(part.filename)
            THEN [body |-> b,
                  attachments |-> Append(prev.attachments,
                                         [filename |-> part.filename,
                                          content_type |-> part.ctype,
                                          data |-> IF part.payload_ok THEN part.payload
                                                   ELSE <<>>])]
            ELSE [body |-> b, attachments |-> prev.attachments]

(* 548-552: the first chunk decode_header gives, "" for a missing Subject *)
DecodeSubject(chunks) == IF chunks = <<>> THEN "" ELSE chunks[1]

(* 545-591: the EzMail built from one raw message *)
Decompose(raw) ==
    LET w == WalkUpTo(raw.parts, Len(raw.parts))
    IN  [sender |-> raw.from, subject |-> DecodeSubject(raw.subject),
         body |-> Strip(w.body), attachments |-> w.attachments]

----------------------------------------------------------------------------
(* The answer of self.mail.fetch to one identifier: status is "RAISE" when *)
(* the call raises; data is "empty" ([]), "none" ([None]) or "message"     *)
Resp(status, data, raw) == [status |-> status, data |-> data, raw |-> raw]
NoRaw == [from |-> "", subject |-> <<>>, parts |-> <<>>]

(* only the status is looked at *)
SkipFetchByStatus(r) == r.status # "OK"

(* 542: status_fetch != "OK" or not msg_data *)
SkipFetch(r) == r.status # "OK" \/ r.data = "empty"

(* 540-591: the loop over the identifiers from position i on *)
RECURSIVE FetchFrom(_, _, _, _)
FetchFrom(h, ids, resp, i) ==
    IF i > Len(ids) THEN [raised |-> FALSE, emails |-> <<>>, calls |-> <<>>]
    ELSE
      LET r    == resp[ids[i]]
          call == <<h, "fetch", "SELECTED", ids[i]>>
          rest == FetchFrom(h, ids, resp, i + 1)
      IN
      IF r.status = "RAISE" THEN [raised |-> TRUE, emails |-> <<>>, calls |-> <<call>>]
      ELSE IF SkipFetch(r)
      THEN [raised |-> rest.raised, emails |-> rest.emails, calls |-> <<call>> \o rest.calls]
      ELSE IF r.data # "message"
      THEN [raised |-> TRUE, emails |-> <<>>, calls |-> <<call>>]
      ELSE [raised |-> rest.raised,
            emails |-> IF rest.raised THEN <<>> ELSE <<Decompose(r.raw)>> \o rest.emails,
            calls |-> <<call>> \o rest.calls]

(* fetch_messages, 507-596, on connection h in state st; a holds the        *)
(* arguments and the server's answers.  Gives the outcome and the state the *)
(* connection is left in                                                    *)
FetchRun(h, st, a) ==
    LET criteria   == Criteria(a.q)
        failure    == <<"Failed to fetch emails with the criteria", criteria>>
        selectCall == <<h, "select", st, "INBOX">>
    IN
    IF ~Legal("select", st) \/ a.select = "RAISE"
    THEN [ret |-> Raised("fetch", failure, <<selectCall>>), st |-> st]
    ELSE
      LET st1        == IF a.select = "OK" THEN "SELECTED" ELSE "AUTH"
          searchCall == <<h, "search", st1, criteria>>
      IN
      IF ~Legal("search", st1) \/ a.search # "OK"
      THEN [ret |-> Raised("fetch", failure, <<selectCall, searchCall>>), st |-> st1]
      ELSE
        LET loop == FetchFrom(h, Truncate(a.ids, a.limit), a.resp, 1)
            calls == <<selectCall, searchCall>> \o loop.calls
        IN  IF loop.raised
            THEN [ret |-> Raised("fetch", failure, calls), st |-> st1]
            ELSE [ret |-> Returned("fetch", loop.emails, calls), st |-> st1]

----------------------------------------------------------------------------
(* EzReader operations *)

(* connect, 421-433 *)
connect(open_ok, auth_ok) ==
    /\ Len(imap) < MaxConns
    /\ LET h == Len(imap) + 1
           authCmd == IF auth_type = "password" THEN "login" ELSE "authenticate"
       IN
       IF ~open_ok
       THEN /\ ret' = Raised("connect", "Failed to connect or authenticate to IMAP server",
                             <<<<0, "open", "NONE", "">>>>)
            /\ UNCHANGED <<mail, imap>>
       ELSE /\ mail' = h
            /\ IF auth_type \notin {"password", "oauth2"}
               THEN /\ imap' = Append(imap, "NONAUTH")
                    /\ ret' = Raised("connect",
                                     "Failed to connect or authenticate to IMAP server",
                                     <<<<h, "open", "NONE", "">>>>)
               ELSE /\ imap' = Append(imap, IF auth_ok THEN "AUTH" ELSE "NONAUTH")
                    /\ ret' = IF auth_ok
                              THEN Returned("connect", <<>>,
                                            <<<<h, "open", "NONE", "">>,
                                              <<h, authCmd, "NONAUTH", "">>>>)
                              ELSE Raised("connect",
                                          "Failed to connect or authenticate to IMAP server",
                                          <<<<h, "open", "NONE", "">>,
                                            <<h, authCmd, "NONAUTH", "">>>>)
    /\ UNCHANGED <<auth_type, args>>
    /\ UNCHANGED senderVars

(* list_mailboxes, 444-453 *)
list_mailboxes(answer) ==
    /\ IF NoMail(mail)
       THEN ret' = Raised("list", NotConnected, <<>>)
       ELSE LET call == <<mail, "list", imap[mail], "">>
            IN  IF Legal("list", imap[mail]) /\ answer = "OK"
                THEN ret' = Returned("list", <<"INBOX", "Sent">>, <<call>>)
                ELSE ret' = Raised("list", "Failed to list mailboxes", <<call>>)
    /\ UNCHANGED <<auth_type, mail, imap, args>>
    /\ UNCHANGED senderVars

(* fetch_messages, 507-596 *)
fetch_messages(a) ==
    /\ IF NoMail(mail)
       THEN /\ ret' = Raised("fetch", NotConnected, <<>>)
            /\ imap' = imap
       ELSE LET run == FetchRun(mail, imap[mail], a)
            IN  /\ ret' = run.ret
                /\ imap' = [imap EXCEPT ![mail] = run.st]
    /\ UNCHANGED <<auth_type, mail, args>>
    /\ UNCHANGED senderVars

(* disconnect, 624-629: close, then logout, any error swallowed *)
disconnect(close_ok, logout_ok) ==
    /\ IF NoMail(mail)
       THEN /\ ret' = Returned("disconnect", <<>>, <<>>)
            /\ imap' = imap
       ELSE LET closeCall == <<mail, "close", imap[mail], "">>
            IN  IF Legal("close", imap[mail]) /\ close_ok
                THEN /\ imap' = [imap EXCEPT ![mail] = "LOGOUT"]
                     /\ ret' = Returned("disconnect", <<>>,
                                        <<closeCall, <<mail, "logout", "AUTH", "">>>>)
                ELSE /\ imap' = imap
                     /\ logout_ok
                     /\ ret' = Returned("disconnect", <<>>, <<closeCall>>)
    /\ UNCHANGED <<auth_type, mail, args>>
    /\ UNCHANGED senderVars

ReaderUnused ==
    /\ auth_type = "password"
    /\ mail = 0
    /\ imap = <<>>
    /\ ret = InitRet
    /\ args = <<>>

SenderUnused ==
    /\ smtp_port = SslPort
    /\ max_emails_per_hour = <<>>
    /\ body = <<>>
    /\ attachments = <<>>
    /\ files = [p \in Paths |-> "v1"]
    /\ pc = "idle"
    /\ conn = NoConn
    /\ recipients = <<>>
    /\ idx = 0
    /\ result = EmptyResult
    /\ emails_sent = 0
    /\ unified_body = <<>>
    /\ inline_images = <<>>
    /\ raised = NoneVal
    /\ log = <<>>
    /\ message = NoMessage

----------------------------------------------------------------------------
(* Sample messages and queries *)
DefaultQuery ==
    [status |-> "ALL", sender |-> NoneVal, subject |-> NoneVal, text |-> NoneVal,
     body |-> NoneVal, date |-> NoneVal, since |-> NoneVal, before |-> NoneVal]

ReportMail ==
    [from |-> "boss@x", subject |-> <<"Report">>,
     parts |-> << Part("multipart/mixed", "", NoneVal, FALSE, <<>>, TRUE),
                  Part("text/plain", "", NoneVal, TRUE, <<"see", " ", "attached", "\n">>, FALSE),
                  Part("application/pdf", "attachment", "report.pdf", TRUE, <<"%PDF">>, FALSE) >>]
NoteMail ==
    [from |-> "me@x", subject |-> <<>>,
     parts |-> << Part("text/plain", "", NoneVal, TRUE, <<"note">>, FALSE) >>]

(* The EzReader session: connect, list, fetch, disconnect in any order *)
SessionFetchArgs ==
    { [limit |-> <<>>, q |-> DefaultQuery, select |-> sel, search |-> "OK", ids |-> <<1>>,
       resp |-> [i \in 1..MaxIds |-> Resp("OK", "message", NoteMail)]]
      : sel \in {"OK", "NO", "RAISE"} }

InitReader ==
    /\ auth_type \in AuthTypes
    /\ mail = 0
    /\ imap = <<>>
    /\ ret = InitRet
    /\ args = <<>>

ReaderNext ==
    \/ \E open_ok \in BOOLEAN, auth_ok \in BOOLEAN : connect(open_ok, auth_ok)
    \/ \E answer \in {"OK", "NO", "RAISE"} : list_mailboxes(answer)
    \/ \E a \in SessionFetchArgs : fetch_messages(a)
    \/ \E close_ok \in BOOLEAN, logout_ok \in BOOLEAN : disconnect(close_ok, logout_ok)

InitSessions == InitReader /\ SenderUnused

SpecReader == InitSessions /\ [][ReaderNext]_vars

----------------------------------------------------------------------------
(* One call of fetch_messages on a connected reader, over the arguments and *)
(* the server's answers                                                     *)
Limits == {<<>>} \cup {<<n>> : n \in 0..MaxIds}
Answers == {"OK", "NO", "RAISE"}
IdLists ==
    {s \in SeqsUpTo(1..MaxIds, MaxIds) : \A i, j \in 1..Len(s) : i < j => s[i] < s[j]}
Responses ==
    { Resp("NO", "none", NoRaw), Resp("RAISE", "none", NoRaw), Resp("OK", "empty", NoRaw),
      Resp("OK", "none", NoRaw), Resp("OK", "message", ReportMail),
      Resp("OK", "message", NoteMail) }

FilterValues(f) ==
    {NoneVal, "",
     IF f = "sender" THEN "a@b.com"
     ELSE IF f = "subject" THEN "Hi"
     ELSE IF f = "text" THEN "x"
     ELSE IF f = "body" THEN "w"
     ELSE IF f = "date" THEN "02-Jan-2024"
     ELSE IF f = "since" THEN "01-Jan-2024"
     ELSE "03-Jan-2024"}
Queries ==
    [status : {"ALL", "UNSEEN"}, sender : FilterValues("sender"),
     subject : FilterValues("subject"), text : FilterValues("text"),
     body : FilterValues("body"), date : FilterValues("date"),
     since : FilterValues("since"), before : FilterValues("before")]

PartSamples ==
    { Part(ct, d, fn, pl[1], pl[2], FALSE) :
        ct \in {"text/plain", "application/pdf"}, d \in {"", "attachment"},
        fn \in {NoneVal, "report.pdf"},
        pl \in {<<TRUE, <<"first">>>>, <<TRUE, <<" ", "second", " ">>>>, <<FALSE, <<>>>>} }
      \cup {Part("multipart/mixed", "", NoneVal, FALSE, <<>>, TRUE)}
RawMessages ==
    {[from |-> "me@x", subject |-> <<"Hi", "there">>, parts |-> ps] :
        ps \in SeqsUpTo(PartSamples, MaxParts)}

(* the answers of the server vary *)
ServerInputs ==
    [limit : Limits, q : {DefaultQuery}, select : Answers, search : Answers,
     ids : IdLists, resp : [1..MaxIds -> Responses]]
(* the filters vary *)
QueryInputs ==
    [limit : {<<>>}, q : Queries, select : {"OK"}, search : {"OK"}, ids : {<<>>},
     resp : {[i \in 1..MaxIds |-> Resp("NO", "none", NoRaw)]}]
(* the fetched message varies *)
ParseInputs ==
    [limit : {<<>>}, q : {DefaultQuery}, select : {"OK"}, search : {"OK"}, ids : {<<1>>},
     resp : {[i \in 1..MaxIds |-> Resp("OK", "message", raw)] : raw \in RawMessages}]

InitFetch ==
    /\ SenderUnused
    /\ auth_type = "password"
    /\ mail = 1
    /\ imap = <<"AUTH">>
    /\ ret = InitRet
    /\ args \in ServerInputs \cup QueryInputs \cup ParseInputs

fetch_call ==
    /\ ret = InitRet
    /\ fetch_messages(args)

SpecFetch == InitFetch /\ [][fetch_call]_vars

(* EzSender alone: the reader is not in use *)
Init == InitSender /\ ReaderUnused

Next == SenderNext

Spec == Init /\ [][Next]_vars

----------------------------------------------------------------------------
(* Body assembly alone: send has its session and is about to call           *)
(* _build_body (263), over every body of at most MaxBlocks blocks and every *)
(* state of the image file                                                  *)
MaxBlocks == 2

Widths == {NoneVal, "", "200px"}
Heights == {NoneVal, "50%"}
Cids == {NoneVal, "", "logo"}
CidRefHtml == <<"<", "img", " ", "src=\"cid:logo\"", ">">>
Blocks ==
    {TextBlock(HelloHtml), TextBlock(CidRefHtml)}
        \cup {ImageBlock(ImagePath, w, h, c) : w \in Widths, h \in Heights, c \in Cids}
Bodies == SeqsUpTo(Blocks, MaxBlocks)

Session(port) ==
    [kind |-> ConnClass(port), state |-> "open", starttls |-> NeedsStartTls(port),
     auth |-> TRUE]

InitBody ==
    /\ smtp_port = SslPort
    /\ max_emails_per_hour = <<>>
    /\ body \in Bodies
    /\ attachments = <<>>
    /\ files \in {[p \in Paths |-> IF p = ImagePath THEN st ELSE "v1"] : st \in FileStates}
    /\ pc = "build_body"
    /\ conn = Session(SslPort)
    /\ recipients = <<"a@x">>
    /\ idx = 0
    /\ result = EmptyResult
    /\ emails_sent = 0
    /\ unified_body = <<>>
    /\ inline_images = <<>>
    /\ raised = NoneVal
    /\ log = <<>>
    /\ message = NoMessage
    /\ ReaderUnused

build_call == \E quit_ok \in BOOLEAN : send_build_body(quit_ok)

SpecBody == InitBody /\ [][build_call]_vars

----------------------------------------------------------------------------
(* One batch for a message with an inline image and an attachment, while    *)
(* the two files change                                                     *)
InitBatch ==
    /\ smtp_port = StartTlsPort
    /\ max_emails_per_hour = <<>>
    /\ body = <<TextBlock(HelloHtml), ImageBlock(ImagePath, NoneVal, NoneVal, NoneVal)>>
    /\ attachments = <<DocPath>>
    /\ files = [p \in Paths |-> "v1"]
    /\ pc = "idle"
    /\ conn = NoConn
    /\ recipients = <<>>
    /\ idx = 0
    /\ result = EmptyResult
    /\ emails_sent = 0
    /\ unified_body = <<>>
    /\ inline_images = <<>>
    /\ raised = NoneVal
    /\ log = <<>>
    /\ message = NoMessage
    /\ ReaderUnused

SpecBatch == InitBatch /\ [][Next]_vars

----------------------------------------------------------------------------
(* The plain-text alternative alone: send is in its loop (266) with one     *)
(* recipient left, over every unified body of at most MaxText tokens        *)
MaxText == 4

TextTokens == {"<", ">", " ", "\n", "p", "Hi"}
Texts == SeqsUpTo(TextTokens, MaxText)

InitPlain ==
    /\ smtp_port = SslPort
    /\ max_emails_per_hour = <<>>
    /\ unified_body \in Texts
    /\ body = <<TextBlock(unified_body)>>
    /\ attachments = <<>>
    /\ files = [p \in Paths |-> "v1"]
    /\ pc = "loop"
    /\ conn = Session(SslPort)
    /\ recipients = <<"a@x">>
    /\ idx = 1
    /\ result = EmptyResult
    /\ emails_sent = 0
    /\ inline_images = <<>>
    /\ raised = NoneVal
    /\ log = <<>>
    /\ message = NoMessage
    /\ ReaderUnused

plain_call == \E send_ok \in BOOLEAN : send_recipient(send_ok)

SpecPlain == InitPlain /\ [][plain_call]_vars

----------------------------------------------------------------------------
(* Properties of EzSender.send *)
Range(s) == {s[i] : i \in DOMAIN s}

IsSend(e) == e[1] = "sendmail"
IsFailure(e) == e[1] \in {"build_error", "sendmail_error"}
IsSleep(e) == e[1] = "sleep"
IsAttempt(e) == ~IsSleep(e)
Attempts == SelectSeq(log, IsAttempt)
Attempted == [i \in 1..Len(Attempts) |-> Attempts[i][2]]
SuccessesUpTo(i) == Cardinality({j \in 1..i : IsSend(log[j])})
ErrorText(e) == IF e[1] = "build_error" THEN "open failed" ELSE "sendmail failed"

(* C1: when send returns, the requested addresses are partitioned by sent   *)
(* and failed: no address in both, none in neither, and len(sent) +         *)
(* len(failed) is the number of distinct addresses asked for                *)
C1_ResultPartitionsRecipients ==
    pc = "returned" =>
        /\ Range(result.sent) \cap DOMAIN result.failed = {}
        /\ Range(result.sent) \cup DOMAIN result.failed = Range(recipients)
        /\ Len(result.sent) + Cardinality(DOMAIN result.failed)
               = Cardinality(Range(recipients))

(* C2: inside the session, a recipient whose message cannot be built or     *)
(* sent is recorded in failed with the error text, nothing else of the      *)
(* result changes, the loop goes on to the next recipient and send does not *)
(* raise; the recipients are attempted one by one in list order, all of     *)
(* them by the time send returns                                            *)
C2_AttemptsInOrder ==
    /\ pc \in {"loop", "returned"} =>
           /\ idx \in 1..(Len(recipients) + 1)
           /\ Attempted = SubSeq(recipients, 1, idx - 1)
    /\ pc = "returned" =>
           /\ Attempted = recipients
           /\ \A i \in 1..Len(Attempts) :
                  IsFailure(Attempts[i]) => Attempts[i][2] \in DOMAIN result.failed

C2_FailureStep ==
    (pc = "loop" /\ Len(log') > Len(log) /\ IsFailure(log'[Len(log')])) =>
        LET e == log'[Len(log')]
        IN  /\ e[2] = recipients[idx]
            /\ e[2] \in DOMAIN result'.failed
            /\ result'.failed[e[2]] = ErrorText(e)
            /\ \A a \in DOMAIN result.failed \ {e[2]} :
                   a \in DOMAIN result'.failed /\ result'.failed[a] = result.failed[a]
            /\ result'.sent = result.sent
            /\ pc' = "loop"
            /\ idx' = idx + 1
            /\ recipients' = recipients

C2_FailureRecordedLoopContinues == []C2_AttemptsInOrder /\ [][C2_FailureStep]_vars

(* a recipient failed and a later one was still sent to, and send returned *)
C2_Witness ==
    /\ pc = "returned"
    /\ \E i, j \in 1..Len(log) : i < j /\ IsFailure(log[i]) /\ IsSend(log[j])

(* C3 as stated, its second half: once the session is established, send *)
(* does not raise for body assembly (_build_body), that is, before the   *)
(* recipient loop has begun                                              *)
SetupCauses == {"connect", "starttls", "login"}
C3_BodyAssemblyNeverFatal == ~(pc = "raised" /\ conn.auth /\ idx = 0)

(* C3, amended: send raises exactly when session setup fails, when body     *)
(* assembly (_build_body) fails, or when leaving the connection scope       *)
(* (QUIT) fails; no per-recipient failure makes it raise, and every         *)
(* recipient handled so far is in the result                                *)
C3_FatalPaths ==
    /\ pc = "raised" => raised \in SetupCauses \cup {"build_body", "quit"}
    /\ (pc = "raised" /\ raised \in SetupCauses) => (~conn.auth /\ idx = 0)
    /\ (pc = "raised" /\ raised = "build_body") =>
           (conn.auth /\ idx = 0 /\ ~_build_body(body, files).ok)
    /\ (pc = "raised" /\ raised = "quit") =>
           /\ conn.auth
           /\ conn.state = "closed"
           /\ (idx = 0 /\ ~_build_body(body, files).ok) \/ idx = Len(recipients) + 1
    /\ pc = "returned" => (conn.auth /\ raised = NoneVal /\ idx = Len(recipients) + 1)
    /\ pc \in {"loop", "returned"} =>
           \A i \in 1..(idx - 1) :
               recipients[i] \in Range(result.sent) \cup DOMAIN result.failed

(* body assembly failed in an established session and send raised *)
C3_Witness == pc = "raised" /\ raised = "build_body" /\ conn.auth

(* C4: the counter is the number of successful transmissions; a pause       *)
(* follows a successful transmission exactly when that transmission brings  *)
(* the counter to max_emails_per_hour, before anything else is attempted;   *)
(* with a maximum of 2 and 3 recipients that all succeed there is one       *)
(* pause, after the 2nd transmission and before the 3rd                     *)
C4_PauseAfterMaxSuccesses ==
    /\ pc \in {"loop", "returned"} =>
           /\ emails_sent = SuccessesUpTo(Len(log))
           /\ emails_sent = Len(result.sent)
    /\ \A i \in 1..Len(log) :
           /\ IsSleep(log[i]) =>
                  /\ TruthyInt(max_emails_per_hour)
                  /\ i > 1
                  /\ IsSend(log[i - 1])
                  /\ SuccessesUpTo(i - 1) = max_emails_per_hour[1]
           /\ (/\ IsSend(log[i])
               /\ TruthyInt(max_emails_per_hour)
               /\ SuccessesUpTo(i) = max_emails_per_hour[1]) =>
                  (i < Len(log) /\ IsSleep(log[i + 1]))
    /\ (/\ pc = "returned"
        /\ max_emails_per_hour = <<2>>
        /\ Len(recipients) = 3
        /\ Len(result.sent) = 3) =>
           log = << <<"sendmail", recipients[1]>>, <<"sendmail", recipients[2]>>,
                    <<"sleep", PauseSeconds>>, <<"sendmail", recipients[3]>> >>

(* a maximum of 2, 3 recipients all sent to, and the pause was taken *)
C4_Witness ==
    /\ pc = "returned"
    /\ max_emails_per_hour = <<2>>
    /\ Len(recipients) = 3
    /\ Len(result.sent) = 3
    /\ \E i \in 1..Len(log) : IsSleep(log[i])

----------------------------------------------------------------------------
(* Properties of EzReader *)
FetchReturned == ret.op = "fetch" /\ ret.raised = NoneVal
Truncated == Truncate(args.ids, args.limit)
Answer(id) == args.resp[id]

(* C5: fetch_messages(limit=N) returns at most N messages, for every        *)
(* integer N given as limit, 0 included                                     *)
C5_AtMostLimit ==
    (FetchReturned /\ args.limit # <<>>) => Len(ret.value) <= args.limit[1]

(* no connect() has succeeded: every connection opened is unauthenticated *)
NeverConnected == \A h \in 1..Len(imap) : imap[h] = "NONAUTH"

(* C6: a connect() that fails keeps no connection handle, and a following   *)
(* list_mailboxes() or fetch_messages() fails fast with the not-connected   *)
(* error, as if connect() had never been called                             *)
C6_FailedConnectKeepsNothing ==
    /\ (ret.op = "connect" /\ ret.raised # NoneVal /\ NeverConnected) => NoMail(mail)
    /\ (ret.op \in {"list", "fetch"} /\ NeverConnected) =>
           (ret.raised = NotConnected /\ ret.calls = <<>>)

(* C7: right after disconnect(), list_mailboxes() and fetch_messages() fail *)
(* fast with the not-connected error and issue no call on the connection    *)
C7_DisconnectStep ==
    (ret.op = "disconnect" /\ ret'.op \in {"list", "fetch"}) =>
        (ret'.raised = NotConnected /\ ret'.calls = <<>>)
C7_DisconnectedAfterDisconnect == [][C7_DisconnectStep]_vars

ReportedSuccess(id) == Answer(id).status = "OK"
HasMessage(id) == Answer(id).status = "OK" /\ Answer(id).data = "message"
Aborts(id) == Answer(id).status = "RAISE" \/ (Answer(id).status = "OK" /\ Answer(id).data = "none")
SearchSucceeded == args.select = "OK" /\ args.search = "OK"
FetchedIds ==
    LET fetches == SelectSeq(ret.calls, LAMBDA c : c[2] = "fetch")
    IN  [i \in 1..Len(fetches) |-> fetches[i][4]]
MailsOf(ids) == [i \in 1..Len(ids) |-> Decompose(Answer(ids[i]).raw)]

(* C8 as stated: unless a fetch call itself raises, the call returns, and   *)
(* the list holds exactly one EzMail per truncated identifier whose fetch   *)
(* reported success, in order                                               *)
C8_OnePerSuccessfulFetch ==
    (/\ ret.op = "fetch"
     /\ SearchSucceeded
     /\ \A i \in 1..Len(Truncated) : Answer(Truncated[i]).status # "RAISE") =>
        /\ ret.raised = NoneVal
        /\ Len(ret.value) = Len(SelectSeq(Truncated, ReportedSuccess))

(* C8, amended: an identifier whose fetch answers a status other than OK,   *)
(* or OK with empty data, is skipped and the remaining identifiers are      *)
(* still fetched; the call raises exactly when select or search fails, a    *)
(* fetch raises, or a fetch answers OK without a message; when it returns,  *)
(* the list is, in the server's order, one EzMail per truncated identifier  *)
(* whose fetch answered OK with a message                                   *)
C8_SkipWithoutAbort ==
    ret.op = "fetch" =>
        /\ ret.raised = NoneVal <=>
               (SearchSucceeded /\ \A i \in 1..Len(Truncated) : ~Aborts(Truncated[i]))
        /\ ret.raised = NoneVal =>
               /\ FetchedIds = Truncated
               /\ ret.value = MailsOf(SelectSeq(Truncated, HasMessage))

(* the first identifier was skipped and the second one still became an EzMail *)
C8_Witness ==
    /\ FetchReturned
    /\ Len(Truncated) = 2
    /\ ~ReportedSuccess(Truncated[1])
    /\ HasMessage(Truncated[2])
    /\ Len(ret.value) = 1

Keyword(f) ==
    IF f = "sender" THEN " FROM \""
    ELSE IF f = "subject" THEN " SUBJECT \""
    ELSE IF f = "text" THEN " TEXT \""
    ELSE IF f = "body" THEN " BODY \""
    ELSE IF f = "date" THEN " ON "
    ELSE IF f = "since" THEN " SINCE "
    ELSE " BEFORE "
Quoted(f) == f \in {"sender", "subject", "text", "body"}
Present(v) == v # NoneVal /\ v # ""
SentCriteria == ret.calls[2][4]
KeywordAt(k) == {i \in 1..Len(SentCriteria) : SentCriteria[i] = Keyword(Filters[k])}
RECURSIVE ClauseTokens(_, _)
ClauseTokens(q, k) ==
    IF k = 0 THEN 0
    ELSE ClauseTokens(q, k - 1)
           + (IF ~Present(q[Filters[k]]) THEN 0 ELSE IF Quoted(Filters[k]) THEN 3 ELSE 2)

(* C9: the search expression sent is "(" and the status, then one clause    *)
(* per filter that is given (None and "" are not), FROM "x", SUBJECT "y",   *)
(* TEXT "z", BODY "w", ON d, SINCE d, BEFORE d in this order, nothing for   *)
(* a filter that is not given, then ")"; the two examples of the claim      *)
(* give exactly the two strings                                             *)
C9_CriteriaInFixedOrder ==
    (ret.op = "fetch" /\ Len(ret.calls) >= 2) =>
        LET c == SentCriteria
            q == args.q
        IN  /\ c[1] = "(" /\ c[2] = q.status /\ c[Len(c)] = ")"
            /\ Len(c) = 3 + ClauseTokens(q, Len(Filters))
            /\ \A k \in 1..Len(Filters) :
                   IF Present(q[Filters[k]])
                   THEN /\ Cardinality(KeywordAt(k)) = 1
                        /\ \A i \in KeywordAt(k) :
                               /\ c[i + 1] = q[Filters[k]]
                               /\ Quoted(Filters[k]) => c[i + 2] = "\""
                   ELSE KeywordAt(k) = {}
            /\ \A k1, k2 \in 1..Len(Filters) :
                   k1 < k2 => \A i \in KeywordAt(k1), j \in KeywordAt(k2) : i < j
            /\ q = [DefaultQuery EXCEPT !.status = "UNSEEN", !.sender = "a@b.com",
                                        !.since = "01-Jan-2024"]
                   => Join(c) = "(UNSEEN FROM \"a@b.com\" SINCE 01-Jan-2024)"
            /\ q = DefaultQuery => Join(c) = "(ALL)"

(* the first example of the claim was searched for *)
C9_Witness ==
    /\ ret.op = "fetch"
    /\ Len(ret.calls) >= 2
    /\ args.q = [DefaultQuery EXCEPT !.status = "UNSEEN", !.sender = "a@b.com",
                                     !.since = "01-Jan-2024"]

(* C10: the body of the EzMail is the trimmed content of the first leaf     *)
(* part that is text/plain, not an attachment, and decodes; a later such    *)
(* part does not replace it                                                 *)
C10_FirstPlainPartIsBody ==
    (FetchReturned /\ Len(ret.value) = 1 /\ Len(Truncated) = 1) =>
        LET parts == Answer(Truncated[1]).raw.parts
            match == {i \in 1..Len(parts) :
                         ~parts[i].multipart /\ IsBodyPart(parts[i]) /\ parts[i].payload_ok}
        IN  match # {} =>
                \E i \in match :
                    /\ \A j \in match : i <= j
                    /\ ret.value[1].body = Strip(parts[i].payload)

----------------------------------------------------------------------------
(* Properties of body assembly *)
ImgTagStarts(html) == {i \in 1..(Len(html) - 1) : html[i] = "<" /\ html[i + 1] = "img"}
TagEnd(html, i) ==
    CHOOSE j \in (i + 1)..(Len(html) + 1) :
        /\ j <= Len(html) => html[j] = ">"
        /\ \A k \in (i + 1)..(j - 1) : html[k] # ">"
AutoTags(html, n) ==
    {i \in ImgTagStarts(html) :
        \E j \in i..TagEnd(html, i) : html[j] = "src=\"cid:" \o AutoCid(n) \o "\""}
StyleHasWidth(html, i, w) ==
    \E j, k \in i..TagEnd(html, i) :
        /\ j < k
        /\ html[j] = "style=\""
        /\ html[k] = "width:"
        /\ html[k + 1] = w
        /\ html[k + 2] = ";"
ImageBlocks == {n \in 1..Len(body) : body[n].kind = "image"}
RECURSIVE WrittenTags(_)
WrittenTags(n) ==
    IF n = 0 THEN 0
    ELSE WrittenTags(n - 1)
           + (IF body[n].kind = "text" THEN Cardinality(ImgTagStarts(body[n].html)) ELSE 0)
Assembled == pc = "loop" /\ idx = 1 /\ log = <<>>

(* C11 as stated: for every body, an image block with no cid and a          *)
(* non-empty width yields an auto-inserted <img> tag whose style holds the  *)
(* width, and an image block with a cid yields no auto-inserted tag         *)
C11_TagForEveryImageBlock ==
    Assembled =>
        \A n \in ImageBlocks :
            /\ (~TruthyStr(body[n].cid) /\ TruthyStr(body[n].width)) =>
                   \E i \in AutoTags(unified_body, n) :
                       StyleHasWidth(unified_body, i, body[n].width)
            /\ TruthyStr(body[n].cid) => AutoTags(unified_body, n) = {}

(* C11, amended: when assembly completes, an image block with no cid (None  *)
(* or "") whose file exists yields exactly one auto-inserted <img> tag,     *)
(* whose style holds the width when the width is non-empty; a block whose   *)
(* file is missing, or that has a cid, yields none; no other <img> tag is   *)
(* added to those the text blocks hold                                      *)
C11_TagForExistingImage ==
    Assembled =>
        /\ \A n \in ImageBlocks :
               IF ~TruthyStr(body[n].cid) /\ isfile(files, body[n].image)
               THEN /\ Cardinality(AutoTags(unified_body, n)) = 1
                    /\ TruthyStr(body[n].width) =>
                           \A i \in AutoTags(unified_body, n) :
                               StyleHasWidth(unified_body, i, body[n].width)
               ELSE AutoTags(unified_body, n) = {}
        /\ Cardinality(ImgTagStarts(unified_body))
               = WrittenTags(Len(body))
                   + Cardinality({n \in ImageBlocks : ~TruthyStr(body[n].cid)
                                                         /\ isfile(files, body[n].image)})

(* a body with a cid block and a no-cid block with a width was assembled    *)
(* from an existing file                                                    *)
C11_Witness ==
    /\ Assembled
    /\ isfile(files, ImagePath)
    /\ \E n, m \in ImageBlocks :
           /\ TruthyStr(body[n].cid)
           /\ ~TruthyStr(body[m].cid) /\ TruthyStr(body[m].width)
           /\ AutoTags(unified_body, m) # {}

----------------------------------------------------------------------------
(* Properties of the plain-text alternative *)
NoMarkup(t) == \A i \in 1..Len(t) : t[i] \notin {"<", ">"}
RECURSIVE IsTagsFrom(_, _)
IsTagsFrom(t, i) ==
    \/ i > Len(t)
    \/ /\ t[i] = "<"
       /\ \E j \in (i + 2)..Len(t) :
              /\ t[j] = ">"
              /\ \A k \in (i + 1)..(j - 1) : t[k] # ">"
              /\ IsTagsFrom(t, j + 1)
OnlyMarkup(t) == t # <<>> /\ IsTagsFrom(t, 1)
Words(t) == {i \in 1..Len(t) : ~IsSpace(t[i])}
NthWord(t, k) == CHOOSE i \in Words(t) : Cardinality({j \in Words(t) : j <= i}) = k
Built == message # NoMessage

(* C12 as stated: without markup the plain text is the trimmed original;    *)
(* with only markup, or nothing, it is the placeholder                      *)
C12_PlainIsTrimmedOriginal ==
    Built =>
        /\ (NoMarkup(unified_body) /\ Strip(unified_body) # <<>>) =>
               message.plain = Strip(unified_body)
        /\ (unified_body = <<>> \/ OnlyMarkup(unified_body)) =>
               message.plain = <<Placeholder>>

(* C12, amended: without markup the plain text is the trimmed original with *)
(* every run of white space replaced by one space (the same words in the    *)
(* same order, a single space between two words exactly where the original  *)
(* had white space, none at the ends), or the placeholder when the original *)
(* holds only white space; with only markup, or nothing, it is the          *)
(* placeholder                                                              *)
C12_PlainIsNormalisedOriginal ==
    Built =>
        LET t == unified_body
            r == message.plain
            n == Cardinality(Words(t))
        IN  /\ NoMarkup(t) =>
                   IF n = 0 THEN r = <<Placeholder>>
                   ELSE /\ Cardinality(Words(r)) = n
                        /\ NthWord(r, 1) = 1
                        /\ NthWord(r, n) = Len(r)
                        /\ \A i \in 1..Len(r) : IsSpace(r[i]) => r[i] = " "
                        /\ \A k \in 1..n : r[NthWord(r, k)] = t[NthWord(t, k)]
                        /\ \A k \in 1..(n - 1) :
                               NthWord(r, k + 1) - NthWord(r, k)
                                   = IF NthWord(t, k + 1) - NthWord(t, k) > 1 THEN 2 ELSE 1
            /\ (t = <<>> \/ OnlyMarkup(t)) => r = <<Placeholder>>

(* a body without markup whose white space was collapsed *)
C12_Witness ==
    /\ Built
    /\ NoMarkup(unified_body)
    /\ Cardinality(Words(unified_body)) = 2
    /\ Len(message.plain) = 3
    /\ Len(unified_body) = 4

----------------------------------------------------------------------------
(* Properties of the rate limit *)
SendsBetween(i, j) == Cardinality({k \in i..j : IsSend(log[k])})
NoPauseBetween(i, j) == \A k \in i..j : ~IsSleep(log[k])

(* C13: with max_emails_per_hour = M, no stretch of the run without a pause *)
(* (before the first pause, between two pauses, after the last one) holds   *)
(* more than M successful transmissions                                     *)
C13_AtMostMaxBetweenPauses ==
    TruthyInt(max_emails_per_hour) =>
        \A i, j \in 1..Len(log) :
            (i <= j /\ NoPauseBetween(i, j)) => SendsBetween(i, j) <= max_emails_per_hour[1]

----------------------------------------------------------------------------
(* Properties of EzReader.connect *)
ValidAuthTypes == {"password", "oauth2"}

(* C14: with an auth_type other than "password" and "oauth2", connect()     *)
(* fails before any network call: no TLS session to the host is ever opened *)
(* and none is kept                                                         *)
C14_InvalidAuthTypeOpensNothing ==
    auth_type \notin ValidAuthTypes => (imap = <<>> /\ NoMail(mail))

----------------------------------------------------------------------------
(* Properties of the per-recipient message *)

(* this step of the loop hands a message to smtp.sendmail *)
Handed ==
    /\ pc = "loop"
    /\ Len(log') > Len(log)
    /\ log'[Len(log) + 1][1] \in {"sendmail", "sendmail_error"}
FromDisk(parts) == \A k \in 1..Len(parts) : parts[k].data = files[parts[k].filename]
Reflects(parts) ==
    \A k \in 1..Len(parts) :
        CanOpen(files, parts[k].filename) => parts[k].data = files[parts[k].filename]
Existing(paths) == SelectSeq(paths, LAMBDA p : isfile(files, p))
Names(parts) == [k \in 1..Len(parts) |-> parts[k].filename]

(* C15 as stated: the message of every recipient holds the inline images    *)
(* and the attachments as they are on disk at that iteration: a file that   *)
(* was rewritten since is in the message with its new content               *)
C15_RereadStep ==
    Handed => (Reflects(message'.images) /\ Reflects(message'.attachments))
C15_EverythingRereadPerRecipient == [][C15_RereadStep]_vars

(* C15, amended: the attachments of every recipient's message are read at   *)
(* that iteration (those files that exist then, with their content then),   *)
(* while the HTML and the inline images are those assembled once before the *)
(* loop, which no iteration changes                                         *)
C15_AttachmentStep ==
    /\ Handed =>
           /\ FromDisk(message'.attachments)
           /\ Names(message'.attachments) = Existing(attachments)
           /\ message'.images = inline_images
           /\ message'.html = unified_body
           /\ message'.to = recipients[idx]
    /\ pc = "loop" => (inline_images' = inline_images /\ unified_body' = unified_body)
C15_AttachmentsRereadImagesShared == [][C15_AttachmentStep]_vars

(* the second recipient's message, after both files changed: the new        *)
(* attachment and the image as it was when the body was assembled           *)
C15_Witness ==
    /\ idx = 3
    /\ message # NoMessage
    /\ message.to = recipients[2]
    /\ Len(message.images) = 1 /\ Len(message.attachments) = 1
    /\ message.images[1].data = "v1" /\ files[ImagePath] = "v2"
    /\ message.attachments[1].data = "v2"

----------------------------------------------------------------------------
(* Properties of EzSender._connect *)

(* C16: port 587 opens a plain connection and then issues STARTTLS; every   *)
(* other port opens the connection with implicit TLS and issues no STARTTLS *)
C16_TransportByPort ==
    conn.state # "none" =>
        IF smtp_port = StartTlsPort
        THEN /\ conn.kind = "SMTP"
             /\ pc \notin {"starttls", "raised"} => conn.starttls
        ELSE /\ conn.kind = "SMTP_SSL"
             /\ pc # "starttls"
             /\ ~conn.starttls

(* C17: when send is over, returned or raised, every connection it opened   *)
(* has been released                                                        *)
C17_ConnectionReleased ==
    pc \in {"returned", "raised"} => conn.state \in {"none", "closed"}

====
